---- MODULE Spec2Model ----
(***************************************************************************)
(* pymatgen/io/xyz.py: the XYZ and MXYZ text codecs.                       *)
(*                                                                         *)
(* A text is a sequence of one-character strings.  A coordinate is a       *)
(* decimal number [m |-> mantissa, e |-> number of fractional digits],     *)
(* value m * 10^(-e), kept canonical (no trailing fractional zero).  The   *)
(* formatter is checked on coordinates that are multiples of 1/4: these    *)
(* are exact both as doubles and as two-digit decimals, so Python's        *)
(* correctly rounded (ties-to-even) "{:.Pf}" is exact decimal arithmetic.  *)
(* The character classes are the ASCII part of Python's \w, \s and \d.     *)
(***************************************************************************)
EXTENDS Integers, Sequences, FiniteSets, TLC

VARIABLES
    pc,         \* where the call stands: "start", "text", "mtext", "scan",
                \* "mstart", then "done" (returned) or "raised" (exception)
    mol,        \* XYZ._mol
    precision,  \* XYZ.precision / MXYZ.precision
    mols,       \* MXYZ._mols; the list mols of MXYZ.from_string
    text,       \* the text the caller hands to MXYZ.from_string
    contents,   \* the local contents of XYZ.from_string / MXYZ.from_string
    out,        \* the text __str__ returns
    result,     \* XYZ.from_string(contents).molecule
    err,        \* the exception raised, NoError if none
    pos,        \* where pat.finditer resumes its scan of contents
    xyz_texts   \* the successive values of xyz_text

vars == <<pc, mol, precision, mols, text, contents, out, result, err,
          pos, xyz_texts>>

----------------------------------------------------------------------------
(* Characters and character classes                                        *)

NL == "\n"
SP == " "

Digits == {"0", "1", "2", "3", "4", "5", "6", "7", "8", "9"}

Letters ==
    {"a", "b", "c", "d", "e", "f", "g", "h", "i", "j", "k", "l", "m",
     "n", "o", "p", "q", "r", "s", "t", "u", "v", "w", "x", "y", "z",
     "A", "B", "C", "D", "E", "F", "G", "H", "I", "J", "K", "L", "M",
     "N", "O", "P", "Q", "R", "S", "T", "U", "V", "W", "X", "Y", "Z"}

\* \w
WordChars == Digits \cup Letters \cup {"_"}

\* \s
SpaceChars == {" ", "\t", "\n", "\r", "\f"}

\* [0-9\-\.e]
NumChars == Digits \cup {"-", ".", "e"}

\* white_space = [ \t\r\f\v]
white_space == {" ", "\t", "\r", "\f"}

----------------------------------------------------------------------------
(* Text helpers: str.split, str.join, slices                               *)

Slice(s, a, b) == IF a > b THEN << >> ELSE SubSeq(s, a, b)

\* The first index >= p whose character is not in class C (Len(s)+1 if none).
RECURSIVE RunEnd(_, _, _)
RunEnd(s, p, C) ==
    IF p > Len(s) \/ s[p] \notin C THEN p ELSE RunEnd(s, p + 1, C)

\* The first index >= p holding character ch (0 if none).
RECURSIVE IndexOf(_, _, _)
IndexOf(s, p, ch) ==
    IF p > Len(s) THEN 0
    ELSE IF s[p] = ch THEN p ELSE IndexOf(s, p + 1, ch)

\* str.split(sep) for a one-character separator.
RECURSIVE Split(_, _)
Split(s, sep) ==
    LET k == IndexOf(s, 1, sep)
    IN  IF k = 0 THEN << s >>
        ELSE << Slice(s, 1, k - 1) >> \o Split(Slice(s, k + 1, Len(s)), sep)

\* sep.join(parts)
RECURSIVE Join(_, _)
Join(parts, sep) ==
    IF Len(parts) = 0 THEN << >>
    ELSE IF Len(parts) = 1 THEN parts[1]
    ELSE parts[1] \o << sep >> \o Join(Tail(parts), sep)

RECURSIVE Pow10(_)
Pow10(n) == IF n = 0 THEN 1 ELSE 10 * Pow10(n - 1)

Abs(n) == IF n < 0 THEN -n ELSE n

DigitChar(d) ==
    CASE d = 0 -> "0" [] d = 1 -> "1" [] d = 2 -> "2" [] d = 3 -> "3"
      [] d = 4 -> "4" [] d = 5 -> "5" [] d = 6 -> "6" [] d = 7 -> "7"
      [] d = 8 -> "8" [] d = 9 -> "9"

DigitVal(c) ==
    CASE c = "0" -> 0 [] c = "1" -> 1 [] c = "2" -> 2 [] c = "3" -> 3
      [] c = "4" -> 4 [] c = "5" -> 5 [] c = "6" -> 6 [] c = "7" -> 7
      [] c = "8" -> 8 [] c = "9" -> 9

\* str(n) for n >= 0
RECURSIVE NatToStr(_)
NatToStr(n) ==
    IF n < 10 THEN << DigitChar(n) >>
    ELSE NatToStr(n \div 10) \o << DigitChar(n % 10) >>

\* The value of a non-empty string of digits.
RECURSIVE DigitsVal(_)
DigitsVal(s) ==
    IF Len(s) = 0 THEN 0
    ELSE 10 * DigitsVal(Slice(s, 1, Len(s) - 1)) + DigitVal(s[Len(s)])

AllIn(s, C) == \A k \in 1..Len(s) : s[k] \in C

----------------------------------------------------------------------------
(* Numbers: int(), float() and "{:.Pf}".format()                           *)

RECURSIVE Strip(_)
Strip(s) ==
    IF Len(s) = 0 THEN s
    ELSE IF s[1] \in SpaceChars THEN Strip(Tail(s))
    ELSE IF s[Len(s)] \in SpaceChars THEN Strip(Slice(s, 1, Len(s) - 1))
    ELSE s

\* The unsigned part of an int() argument: after the strip, after one sign.
IntBody(s) ==
    LET t == Strip(s)
    IN  IF Len(t) > 0 /\ t[1] \in {"-", "+"} THEN Tail(t) ELSE t

\* int(s) succeeds: surrounding whitespace, one optional sign, digits.
\* (The model's texts hold no "_", which Python 3 allows between digits.)
IsInt(s) == Len(IntBody(s)) > 0 /\ AllIn(IntBody(s), Digits)

\* int(s) when IsInt(s)
IntVal(s) ==
    LET t == Strip(s)
    IN  IF t[1] = "-" THEN -DigitsVal(IntBody(s)) ELSE DigitsVal(IntBody(s))

\* A decimal value m * 10^(-e), canonical.
RECURSIVE Dec(_, _)
Dec(m, e) ==
    IF e > 0 /\ m % 10 = 0 THEN Dec(m \div 10, e - 1) ELSE [m |-> m, e |-> e]

\* The pieces of a float() argument drawn from [0-9\-\.e]: sign, integer
\* digits, fraction digits, and what follows the mantissa.
FloatParts(tok) ==
    LET p  == IF Len(tok) > 0 /\ tok[1] = "-" THEN 2 ELSE 1
        i1 == RunEnd(tok, p, Digits)
        dot == i1 <= Len(tok) /\ tok[i1] = "."
        f1 == IF dot THEN RunEnd(tok, i1 + 1, Digits) ELSE i1
        q  == IF f1 + 1 <= Len(tok) /\ tok[f1 + 1] = "-" THEN f1 + 2 ELSE f1 + 1
    IN  [neg   |-> p = 2,
         int   |-> Slice(tok, p, i1 - 1),
         frac  |-> IF dot THEN Slice(tok, i1 + 1, f1 - 1) ELSE << >>,
         rest  |-> Slice(tok, f1, Len(tok)),
         eneg  |-> q = f1 + 2,
         edig  |-> Slice(tok, q, Len(tok))]

\* float(tok) succeeds: [-](digits[.[digits]] | .digits)[e[-]digits]
IsFloat(tok) ==
    LET f == FloatParts(tok)
    IN  /\ Len(f.int) + Len(f.frac) > 0
        /\ \/ Len(f.rest) = 0
           \/ /\ f.rest[1] = "e"
              /\ Len(f.edig) > 0
              /\ AllIn(f.edig, Digits)

\* float(tok) when IsFloat(tok)
FloatVal(tok) ==
    LET f    == FloatParts(tok)
        mant == DigitsVal(f.int \o f.frac)
        x    == IF Len(f.rest) = 0 THEN 0
                ELSE IF f.eneg THEN -DigitsVal(f.edig) ELSE DigitsVal(f.edig)
        sh   == x - Len(f.frac)
        sgn  == IF f.neg THEN -1 ELSE 1
    IN  IF sh >= 0 THEN Dec(sgn * mant * Pow10(sh), 0)
        ELSE Dec(sgn * mant, -sh)

\* round(|d| * 10^P) to an integer, ties to even
RoundScaled(d, P) ==
    IF P >= d.e THEN Abs(d.m) * Pow10(P - d.e)
    ELSE LET unit == Pow10(d.e - P)
             q    == Abs(d.m) \div unit
             r    == Abs(d.m) % unit
         IN  IF 2 * r > unit \/ (2 * r = unit /\ q % 2 = 1) THEN q + 1 ELSE q

RECURSIVE Zeros(_)
Zeros(n) == IF n <= 0 THEN << >> ELSE << "0" >> \o Zeros(n - 1)

\* "{:.Pf}".format(x): fixed point, P digits after the point, "-" for x < 0
FormatFixed(d, P) ==
    LET raw == NatToStr(RoundScaled(d, P))
        ds  == Zeros(P + 1 - Len(raw)) \o raw
        n   == Len(ds)
    IN  (IF d.m < 0 THEN << "-" >> ELSE << >>)
        \o Slice(ds, 1, n - P)
        \o (IF P > 0 THEN << "." >> \o Slice(ds, n - P + 1, n) ELSE << >>)

----------------------------------------------------------------------------
(* The structure type (pymatgen.core.structure.Molecule), as the codecs    *)
(* use it: a sequence of sites, each a species label and three coordinates *)

NoError == "none"

\* Molecule(sp, coords): parallel lists of labels and coordinate triples
Molecule(sp, coords) ==
    [k \in 1..Len(sp) |->
        [specie |-> sp[k], x |-> coords[k][1], y |-> coords[k][2],
         z |-> coords[k][3]]]

\* The labels of a molecule in first-appearance order, without repeats.
RECURSIVE DistinctLabels(_)
DistinctLabels(m) ==
    IF Len(m) = 0 THEN << >>
    ELSE LET init == DistinctLabels(Slice(m, 1, Len(m) - 1))
             lab  == m[Len(m)].specie
         IN  IF \E k \in 1..Len(init) : init[k] = lab THEN init
             ELSE Append(init, lab)

\* mol.composition.formula: each label with its count, space separated
Formula(m) ==
    LET labs == DistinctLabels(m)
    IN  Join([k \in 1..Len(labs) |->
                labs[k] \o NatToStr(Cardinality(
                    {j \in 1..Len(m) : m[j].specie = labs[k]}))], SP)

----------------------------------------------------------------------------
(* XYZ.from_string                                                         *)

\* coord_patt tried at position p of a line:
\*   (\w+)\s+([0-9\-\.e]+)\s+([0-9\-\.e]+)\s+([0-9\-\.e]+)
\* The classes \w / \s and \s / [0-9\-\.e] are disjoint, so every greedy run
\* but the first group's start is forced to be maximal.
coord_patt_at(line, p) ==
    LET a1 == RunEnd(line, p, WordChars)
        a2 == RunEnd(line, a1, SpaceChars)
        a3 == RunEnd(line, a2, NumChars)
        a4 == RunEnd(line, a3, SpaceChars)
        a5 == RunEnd(line, a4, NumChars)
        a6 == RunEnd(line, a5, SpaceChars)
        a7 == RunEnd(line, a6, NumChars)
    IN  [ok     |-> a1 > p /\ a2 > a1 /\ a3 > a2 /\ a4 > a3 /\ a5 > a4
                    /\ a6 > a5 /\ a7 > a6,
         groups |-> << Slice(line, p, a1 - 1), Slice(line, a2, a3 - 1),
                       Slice(line, a4, a5 - 1), Slice(line, a6, a7 - 1) >>]

\* coord_patt.search(line): the leftmost position that matches (0 if none)
RECURSIVE SearchFrom(_, _)
SearchFrom(line, p) ==
    IF p > Len(line) THEN 0
    ELSE IF coord_patt_at(line, p).ok THEN p
    ELSE SearchFrom(line, p + 1)

coord_patt_search(line) == SearchFrom(line, 1)

\* The loop of XYZ.from_string over i in range(2, 2 + num_sites), from
\* index i on (0-based, as in the source): lines[i] raises IndexError past
\* the end of the list, float() raises ValueError on a malformed token.
RECURSIVE ScanLines(_, _, _, _, _)
ScanLines(lines, i, stop, sp, coords) ==
    IF i >= stop THEN [err |-> NoError, molecule |-> Molecule(sp, coords)]
    ELSE IF i + 1 > Len(lines) THEN [err |-> "IndexError", molecule |-> << >>]
    ELSE LET p == coord_patt_search(lines[i + 1])
             g == coord_patt_at(lines[i + 1], p).groups
         IN  IF p = 0 THEN ScanLines(lines, i + 1, stop, sp, coords)
             ELSE IF \E k \in 2..4 : ~IsFloat(g[k])
                  THEN [err |-> "ValueError", molecule |-> << >>]
             ELSE ScanLines(lines, i + 1, stop, Append(sp, g[1]),
                            Append(coords, << FloatVal(g[2]), FloatVal(g[3]),
                                              FloatVal(g[4]) >>))

\* A variant of XYZ.from_string whose loop starts one line early, at the
\* comment line: range(1, 1 + num_sites)
XYZ_from_string_FromComment(s) ==
    LET lines == Split(s, NL)
    IN  IF ~IsInt(lines[1]) THEN [err |-> "ValueError", molecule |-> << >>]
        ELSE ScanLines(lines, 1, 1 + IntVal(lines[1]), << >>, << >>)

\* XYZ.from_string(contents): the molecule, or the exception raised
XYZ_from_string(s) ==
    LET lines == Split(s, NL)
    IN  IF ~IsInt(lines[1]) THEN [err |-> "ValueError", molecule |-> << >>]
        ELSE ScanLines(lines, 2, 2 + IntVal(lines[1]), << >>, << >>)

----------------------------------------------------------------------------
(* XYZ.__str__                                                             *)

\* fmtstr.format(site.specie, site.x, site.y, site.z)
SiteLine(site, P) ==
    site.specie \o << SP >> \o FormatFixed(site.x, P) \o << SP >>
    \o FormatFixed(site.y, P) \o << SP >> \o FormatFixed(site.z, P)

\* A variant of XYZ.__str__ that ends every line with a newline instead of
\* joining the lines
XYZ_str_Terminated(m, P) ==
    Join(<< NatToStr(Len(m)), Formula(m) >>
         \o [k \in 1..Len(m) |-> SiteLine(m[k], P)], NL) \o << NL >>

\* str(XYZ(m, P))
XYZ_str(m, P) ==
    Join(<< NatToStr(Len(m)), Formula(m) >>
         \o [k \in 1..Len(m) |-> SiteLine(m[k], P)], NL)

----------------------------------------------------------------------------
(* MXYZ.from_string: the frame pattern                                     *)

\* The last index in a..b-1 holding a newline (0 if none).
RECURSIVE LastNL(_, _, _)
LastNL(t, a, b) ==
    IF b <= a THEN 0
    ELSE IF t[b - 1] = NL THEN b - 1 ELSE LastNL(t, a, b - 1)

\* natoms_line = white_space* \d+ white_space* \n tried at position p:
\* the position after its newline (0 if it does not match)
natoms_line(t, p) ==
    LET b1 == RunEnd(t, p, white_space)
        b2 == RunEnd(t, b1, Digits)
        b3 == RunEnd(t, b2, white_space)
    IN  IF b2 > b1 /\ b3 <= Len(t) /\ t[b3] = NL THEN b3 + 1 ELSE 0

\* comment_line = [^\n]*\n tried at position p
comment_line(t, p) ==
    LET k == IndexOf(t, p, NL) IN IF k = 0 THEN 0 ELSE k + 1

\* One repetition of the coord_lines group, tried at position p:
\*   \s*\w+\s+[0-9\-\.e]+\s+[0-9\-\.e]+\s+[0-9\-\.e]+\s*\n
\* \s matches newlines too; the closing \s*\n is greedy, so it ends after the
\* last newline of the whitespace run that follows the third number.
coord_line(t, p) ==
    LET e0 == RunEnd(t, p, SpaceChars)
        e1 == RunEnd(t, e0, WordChars)
        e2 == RunEnd(t, e1, SpaceChars)
        e3 == RunEnd(t, e2, NumChars)
        e4 == RunEnd(t, e3, SpaceChars)
        e5 == RunEnd(t, e4, NumChars)
        e6 == RunEnd(t, e5, SpaceChars)
        e7 == RunEnd(t, e6, NumChars)
        e8 == RunEnd(t, e7, SpaceChars)
        nl == LastNL(t, e7, e8)
    IN  IF e1 > e0 /\ e2 > e1 /\ e3 > e2 /\ e4 > e3 /\ e5 > e4 /\ e6 > e5
           /\ e7 > e6 /\ nl > 0
        THEN nl + 1 ELSE 0

\* coord_lines = ( ... )+ from position p, n repetitions matched so far:
\* greedy, so it repeats for as long as a repetition matches.
RECURSIVE coord_lines(_, _, _)
coord_lines(t, p, n) ==
    LET q == coord_line(t, p)
    IN  IF q = 0 THEN [end |-> IF n = 0 THEN 0 ELSE p, count |-> n]
        ELSE coord_lines(t, q, n + 1)

\* frame_pattern_text tried at position p: the end of the match (0 if none)
\* and the number of coord_lines repetitions it consumed.
frame_pattern_at(t, p) ==
    LET c == natoms_line(t, p)
        d == IF c = 0 THEN 0 ELSE comment_line(t, c)
    IN  IF d = 0 THEN [end |-> 0, count |-> 0] ELSE coord_lines(t, d, 0)

\* The next match of pat.finditer at or after position p (0 if none).
RECURSIVE NextMatch(_, _)
NextMatch(t, p) ==
    IF p > Len(t) THEN 0
    ELSE IF frame_pattern_at(t, p).end # 0 THEN p
    ELSE NextMatch(t, p + 1)

----------------------------------------------------------------------------
(* MXYZ.__str__                                                            *)

\* s.rjust(w)
RECURSIVE rjust(_, _)
rjust(s, w) == IF Len(s) >= w THEN s ELSE rjust(<< SP >> \o s, w)

\* str(mol) of a Molecule, the structure type's own summary (abridged to
\* its formula line, its site count and its site lines).  It is not the XYZ
\* text, and its six decimals are fixed: it takes no precision.
Molecule_str(m) ==
    Join(<< << "F", "u", "l", "l", " ", "F", "o", "r", "m", "u", "l", "a",
               " ", "(" >> \o Formula(m) \o << ")" >>,
            << "S", "i", "t", "e", "s", " ", "(" >> \o NatToStr(Len(m))
               \o << ")" >> >>
         \o [k \in 1..Len(m) |->
               Join(<< NatToStr(k - 1), m[k].specie,
                       Join(<< rjust(FormatFixed(m[k].x, 6), 12),
                               rjust(FormatFixed(m[k].y, 6), 12),
                               rjust(FormatFixed(m[k].z, 6), 12) >>, SP) >>,
                    SP)], NL)

\* str(MXYZ(ms, P)) = "\n".join([str(mol) for mol in self._mols]):
\* self.precision is not read.
MXYZ_str(ms, P) == Join([k \in 1..Len(ms) |-> Molecule_str(ms[k])], NL)

----------------------------------------------------------------------------
(* Inputs                                                                  *)

MaxAtoms == 2
MaxPrec == 3
MaxBodyLines == 4
MaxCoordLines == 2
MaxFrames == 2

\* All sequences over S of length 0..n
RECURSIVE SeqsUpTo(_, _)
SeqsUpTo(S, n) ==
    IF n = 0 THEN {<< >>}
    ELSE LET shorter == SeqsUpTo(S, n - 1)
         IN  shorter \cup {Append(q, x) : q \in shorter, x \in S}

\* Species labels as str(site.specie) prints them: elements, and an ion
\* with its oxidation state
Species == { << "H" >>, << "F", "e" >>, << "F", "e", "2", "+" >> }

\* A coordinate given in hundredths
Hundredths(h) == Dec(h, 2)

\* Coordinate triples in hundredths, all multiples of 1/4: zero, ties at
\* precision 0 (0.5, 1.5, 2.5) and 1 (0.25, 0.75, 1.25), negatives that round
\* to zero, and a carry into a new digit (9.75)
CoordTriples ==
    { << 0, 0, 0 >>, << 25, -25, 50 >>, << 75, -75, 975 >>,
      << 50, 150, 250 >>, << -975, 125, -125 >>, << 1225, -50, -250 >> }

Sites ==
    { [specie |-> sp, x |-> Hundredths(c[1]), y |-> Hundredths(c[2]),
       z |-> Hundredths(c[3])] : sp \in Species, c \in CoordTriples }

Molecules == SeqsUpTo(Sites, MaxAtoms)

Precisions == 0..MaxPrec

\* First lines of a single-frame text: "1", "2", "3", " 2 ", "-1", "H2"
HeaderLines ==
    { << "1" >>, << "2" >>, << "3" >>, << " ", "2", " " >>, << "-", "1" >>,
      << "H", "2" >> }

\* Later lines of a single-frame text: "c", "H 0 -1 2.5", "O 1e1 .5 2.",
\* "H - 0 0", "!H 0 0 0 !", "H 0 0" and the empty line
BodyLines ==
    { << "c" >>,
      << "H", " ", "0", " ", "-", "1", " ", "2", ".", "5" >>,
      << "O", " ", "1", "e", "1", " ", ".", "5", " ", "2", "." >>,
      << "H", " ", "-", " ", "0", " ", "0" >>,
      << "!", "H", " ", "0", " ", "0", " ", "0", " ", "!" >>,
      << "H", " ", "0", " ", "0" >>,
      << >> }

SingleTexts ==
    { Join(<< h >> \o b, NL) : h \in HeaderLines,
                                b \in SeqsUpTo(BodyLines, MaxBodyLines) }

\* Frames of a multi-frame text: a count line "1", "2" or "3", a comment
\* line "c" or "1 1 1", and up to MaxCoordLines lines among "H 0 0 0",
\* "O -1 .5 2e1" and "H - 0 0"
CountLines == { << "1" >>, << "2" >>, << "3" >> }

CommentLines == { << "c" >>, << "1", " ", "1", " ", "1" >> }

CoordLines ==
    { << "H", " ", "0", " ", "0", " ", "0" >>,
      << "O", " ", "-", "1", " ", ".", "5", " ", "2", "e", "1" >>,
      << "H", " ", "-", " ", "0", " ", "0" >> }

FrameTexts ==
    { Join(<< n, c >> \o ls, NL) : n \in CountLines, c \in CommentLines,
                                   ls \in SeqsUpTo(CoordLines, MaxCoordLines) }

MultiTexts == { Join(fs, NL) : fs \in SeqsUpTo(FrameTexts, MaxFrames) }

\* Molecules of a multi-frame document: one hydrogen atom each
FrameMolecules == { << s >> : s \in { a \in Sites : a.specie = << "H" >> } }

----------------------------------------------------------------------------
(* The operations                                                          *)

\* str(XYZ(mol, precision)); the text is then handed to XYZ.from_string
XYZStr ==
    /\ pc = "start"
    /\ out' = XYZ_str(mol, precision)
    /\ contents' = out'
    /\ pc' = "text"
    /\ UNCHANGED <<mol, precision, mols, text, result, err, pos, xyz_texts>>

\* XYZ.from_string(contents)
XYZFromString ==
    /\ pc = "text"
    /\ LET r == XYZ_from_string(contents)
       IN  /\ result' = r.molecule
           /\ err' = r.err
    /\ pc' = IF err' = NoError THEN "done" ELSE "raised"
    /\ UNCHANGED <<mol, precision, mols, text, contents, out, pos, xyz_texts>>

\* MXYZ.from_string, lines 143-144: contents[-1] raises IndexError on the
\* empty text; otherwise the text is made to end in a newline
Normalize ==
    /\ pc = "mtext"
    /\ IF Len(text) = 0
       THEN /\ err' = "IndexError"
            /\ pc' = "raised"
            /\ UNCHANGED <<contents, pos>>
       ELSE /\ contents' = IF text[Len(text)] # NL
                           THEN Append(text, NL) ELSE text
            /\ pos' = 1
            /\ pc' = "scan"
            /\ UNCHANGED err
    /\ UNCHANGED <<mol, precision, mols, text, out, result, xyz_texts>>

\* One turn of the loop over pat.finditer(contents): the next match is
\* handed whole to XYZ.from_string, whose exception ends the call
FindIter ==
    /\ pc = "scan"
    /\ NextMatch(contents, pos) # 0
    /\ LET a        == NextMatch(contents, pos)
           b        == frame_pattern_at(contents, a).end
           xyz_text == Slice(contents, a, b - 1)
           r        == XYZ_from_string(xyz_text)
       IN  /\ xyz_texts' = Append(xyz_texts, xyz_text)
           /\ pos' = b
           /\ err' = r.err
           /\ IF r.err = NoError
              THEN /\ mols' = Append(mols, r.molecule)
                   /\ pc' = "scan"
              ELSE /\ pc' = "raised"
                   /\ UNCHANGED mols
    /\ UNCHANGED <<mol, precision, text, contents, out, result>>

\* return MXYZ(mols), once finditer is exhausted
MXYZReturn ==
    /\ pc = "scan"
    /\ NextMatch(contents, pos) = 0
    /\ pc' = "done"
    /\ UNCHANGED <<mol, precision, mols, text, contents, out, result, err,
                   pos, xyz_texts>>

\* str(MXYZ(mols, precision))
MXYZStr ==
    /\ pc = "mstart"
    /\ out' = MXYZ_str(mols, precision)
    /\ pc' = "done"
    /\ UNCHANGED <<mol, precision, mols, text, contents, result, err, pos,
                   xyz_texts>>

----------------------------------------------------------------------------
(* Specifications                                                          *)

\* str(XYZ(mol, precision)), then XYZ.from_string of the text
InitFormat ==
    /\ pc = "start"
    /\ mol \in Molecules
    /\ precision \in Precisions
    /\ mols = << >>
    /\ text = << >>
    /\ contents = << >>
    /\ out = << >>
    /\ result = << >>
    /\ err = NoError
    /\ pos = 0
    /\ xyz_texts = << >>

NextFormat == XYZStr \/ XYZFromString

SpecFormat == InitFormat /\ [][NextFormat]_vars

\* XYZ.from_string of a text
InitParse ==
    /\ pc = "text"
    /\ mol = << >>
    /\ precision = 6
    /\ mols = << >>
    /\ text = << >>
    /\ contents \in SingleTexts
    /\ out = << >>
    /\ result = << >>
    /\ err = NoError
    /\ pos = 0
    /\ xyz_texts = << >>

NextParse == XYZFromString

SpecParse == InitParse /\ [][NextParse]_vars

\* MXYZ.from_string of a text
InitMulti ==
    /\ pc = "mtext"
    /\ mol = << >>
    /\ precision = 6
    /\ mols = << >>
    /\ text \in MultiTexts
    /\ contents = << >>
    /\ out = << >>
    /\ result = << >>
    /\ err = NoError
    /\ pos = 0
    /\ xyz_texts = << >>

NextMulti == Normalize \/ FindIter \/ MXYZReturn

SpecMulti == InitMulti /\ [][NextMulti]_vars

\* str(MXYZ(mols, precision))
InitMStr ==
    /\ pc = "mstart"
    /\ mol = << >>
    /\ precision \in Precisions
    /\ mols \in SeqsUpTo(FrameMolecules, MaxFrames)
    /\ text = << >>
    /\ contents = << >>
    /\ out = << >>
    /\ result = << >>
    /\ err = NoError
    /\ pos = 0
    /\ xyz_texts = << >>

NextMStr == MXYZStr

SpecMStr == InitMStr /\ [][NextMStr]_vars

Init == InitFormat \/ InitParse \/ InitMulti \/ InitMStr

Next == NextFormat \/ NextParse \/ NextMulti \/ NextMStr

Spec == Init /\ [][Next]_vars

----------------------------------------------------------------------------
(* Properties                                                              *)

Finished == pc \in {"done", "raised"}

\* Every label is a non-empty string of word characters (\w).
WordLabels(m) ==
    \A k \in 1..Len(m) :
        Len(m[k].specie) > 0 /\ AllIn(m[k].specie, WordChars)

\* |a - b| <= 10^(-P)
Within(a, b, P) ==
    LET e == IF a.e >= b.e /\ a.e >= P THEN a.e
             ELSE IF b.e >= P THEN b.e ELSE P
    IN  Abs(a.m * Pow10(e - a.e) - b.m * Pow10(e - b.e)) <= Pow10(e - P)

\* Molecule b has the atoms of a: as many, the same labels in the same
\* order, every coordinate within 10^(-P).
SameAtoms(a, b, P) ==
    /\ Len(b) = Len(a)
    /\ \A k \in 1..Len(a) :
          /\ b[k].specie = a[k].specie
          /\ Within(b[k].x, a[k].x, P)
          /\ Within(b[k].y, a[k].y, P)
          /\ Within(b[k].z, a[k].z, P)

\* C1, as stated: for every molecule and precision, parsing the formatted
\* text raises nothing and gives back the same number of atoms, the same
\* labels in order and every coordinate to within 10^(-precision).
C1_RoundTripAnyLabel ==
    Finished => err = NoError /\ SameAtoms(mol, result, precision)

\* C1, amended: the round trip holds for every molecule whose labels are
\* non-empty strings of word characters (letters, digits, underscore).
C1_RoundTrip ==
    (Finished /\ WordLabels(mol))
        => err = NoError /\ SameAtoms(mol, result, precision)

\* C1 witness: two atoms with different word labels went through the round
\* trip at precision 0, and rounding changed a coordinate.
C1_Witness ==
    /\ pc = "done"
    /\ WordLabels(mol)
    /\ Len(mol) = 2
    /\ mol[1].specie # mol[2].specie
    /\ precision = 0
    /\ result[2].x # mol[2].x

\* C7: the text of str(XYZ(mol, precision)) splits on newlines into exactly
\* len(mol) + 2 lines; the first is len(mol) as an integer, the second the
\* composition formula, and line 2 + k splits on single spaces into atom k's
\* label and its three formatted coordinates; with at least one atom the
\* text does not end in a newline.
C7_Layout ==
    pc # "start" =>
        LET ls == Split(out, NL)
        IN  /\ Len(ls) = Len(mol) + 2
            /\ IsInt(ls[1])
            /\ IntVal(ls[1]) = Len(mol)
            /\ ls[2] = Formula(mol)
            /\ \A k \in 1..Len(mol) :
                  Split(ls[2 + k], SP)
                      = << mol[k].specie, FormatFixed(mol[k].x, precision),
                           FormatFixed(mol[k].y, precision),
                           FormatFixed(mol[k].z, precision) >>
            /\ Len(mol) > 0 => out[Len(out)] # NL

\* C7 witness: a molecule of two different atoms has been formatted.
C7_Witness ==
    /\ pc = "text"
    /\ Len(mol) = 2
    /\ mol[1] # mol[2]
    /\ Len(out) > 0

\* C2: str(MXYZ(mols, precision)) is the single-frame texts
\* str(XYZ(mols[k], precision)) joined by one newline, in frame order.
C2_MultiFormat ==
    pc = "done" =>
        out = Join([k \in 1..Len(mols) |-> XYZ_str(mols[k], precision)], NL)

Lines(t) == Split(t, NL)

\* coord_patt matches somewhere in the line.
Matches(line) == coord_patt_search(line) # 0

\* The four groups of the match.
Tokens(line) == coord_patt_at(line, coord_patt_search(line)).groups

\* float() accepts the three numeric groups.
Converts(line) == \A k \in 2..4 : IsFloat(Tokens(line)[k])

\* The lines XYZ.from_string scans, lines 3..N+2 (counted from 1), as far
\* as the text has them.
Window(lines) ==
    IF IsInt(lines[1])
    THEN { k \in 3..(IntVal(lines[1]) + 2) : k <= Len(lines) }
    ELSE {}

\* The indices in a..b of the lines that match coord_patt, in order.
RECURSIVE MatchedIdx(_, _, _)
MatchedIdx(lines, a, b) ==
    IF a > b THEN << >>
    ELSE (IF Matches(lines[a]) THEN << a >> ELSE << >>)
         \o MatchedIdx(lines, a + 1, b)

\* C4: XYZ.from_string raises only for a first line that is no integer or
\* for a matched numeric token that float() rejects; for any other text it
\* returns, and when the text has fewer than N lines after the comment line
\* the molecule has fewer than N atoms.
C4_ParseFailures ==
    Finished =>
        LET lines     == Lines(contents)
            headerBad == ~IsInt(lines[1])
            tokenBad  == \E k \in Window(lines) :
                            Matches(lines[k]) /\ ~Converts(lines[k])
        IN  /\ pc = "raised" => headerBad \/ tokenBad
            /\ (~headerBad /\ ~tokenBad
                    /\ Len(lines) < IntVal(lines[1]) + 2)
                  => pc = "done" /\ Len(result) < IntVal(lines[1])

\* C8: when the first line is an integer N and the text has at least N + 2
\* lines, XYZ.from_string returns one atom for each line among lines 3..N+2
\* that matches coord_patt, in that order and with that line's label, and
\* raises nothing.
C8_TolerantSkipping ==
    Finished =>
        LET lines == Lines(contents)
        IN  (IsInt(lines[1]) /\ Len(lines) >= IntVal(lines[1]) + 2) =>
                LET idx == MatchedIdx(lines, 3, IntVal(lines[1]) + 2)
                IN  /\ pc = "done"
                    /\ Len(result) = Len(idx)
                    /\ \A j \in 1..Len(idx) :
                          result[j].specie = Tokens(lines[idx[j]])[1]

\* C9: on every scanned line that coord_patt matches, float() accepts the
\* three captured tokens, so a text with an integer first line never makes
\* XYZ.from_string raise ValueError.
C9_ConversionNeverFails ==
    Finished =>
        LET lines == Lines(contents)
        IN  /\ \A k \in Window(lines) :
                  Matches(lines[k]) => Converts(lines[k])
            /\ ~(err = "ValueError" /\ IsInt(lines[1]))

\* The text MXYZ.from_string scans: the caller's, ending in a newline.
Normalized(t) ==
    IF Len(t) > 0 /\ t[Len(t)] = NL THEN t ELSE Append(t, NL)

\* C5: for a text in which the frame pattern matches nowhere, the empty text
\* included, MXYZ.from_string makes the text end in a newline and returns an
\* empty list of molecules, raising nothing.
C5_NoFrame ==
    (Finished /\ NextMatch(Normalized(text), 1) = 0) =>
        /\ pc = "done"
        /\ err = NoError
        /\ mols = << >>
        /\ Len(contents) > 0
        /\ contents[Len(contents)] = NL

\* A line that coord_patt matches and whose numbers float() accepts.
GoodLine(line) == Matches(line) /\ Converts(line)

\* A complete frame starts at line a: a count line N >= 1, a comment line,
\* then N coordinate lines.
CompleteAt(lines, a) ==
    /\ IsInt(lines[a])
    /\ IntVal(lines[a]) >= 1
    /\ a + IntVal(lines[a]) + 1 <= Len(lines)
    /\ \A k \in (a + 2)..(a + IntVal(lines[a]) + 1) : GoodLine(lines[k])

\* The longest run of complete frames from line a: their first lines, and
\* the first line that is in none of them.
RECURSIVE Decompose(_, _)
Decompose(lines, a) ==
    IF a <= Len(lines) /\ CompleteAt(lines, a)
    THEN LET d == Decompose(lines, a + IntVal(lines[a]) + 2)
         IN  [frames |-> << a >> \o d.frames, rest |-> d.rest]
    ELSE [frames |-> << >>, rest |-> a]

\* The text of the complete frame that starts at line a.
FrameText(lines, a) == Join(SubSeq(lines, a, a + IntVal(lines[a]) + 1), NL)

\* A partial frame starts at line a and runs to the end of the text: a
\* count line N >= 1, a comment line, then fewer than N coordinate lines.
PartialAt(lines, a) ==
    /\ a + 1 <= Len(lines)
    /\ IsInt(lines[a])
    /\ IntVal(lines[a]) >= 1
    /\ Len(lines) - (a + 1) < IntVal(lines[a])
    /\ \A k \in (a + 2)..Len(lines) : GoodLine(lines[k])

\* The molecules ms begin with the frames that start at the lines fr, each
\* as XYZ.from_string reads it.
FramesReturned(lines, fr, ms) ==
    /\ Len(ms) >= Len(fr)
    /\ \A j \in 1..Len(fr) :
          ms[j] = XYZ_from_string(FrameText(lines, fr[j])).molecule

\* C3: for a text of K >= 1 complete frames joined by single newlines,
\* MXYZ.from_string returns exactly K molecules, the j-th being
\* XYZ.from_string of the j-th frame's text.  (Stated for frames whose
\* numbers float() accepts.)
C3_FrameBoundaries ==
    Finished =>
        LET lines == Lines(text)
            d     == Decompose(lines, 1)
        IN  (Len(d.frames) >= 1 /\ d.rest > Len(lines)) =>
                /\ pc = "done"
                /\ Len(mols) = Len(d.frames)
                /\ FramesReturned(lines, d.frames, mols)

\* C6: for a text of K >= 0 complete frames followed by a trailing partial
\* frame, MXYZ.from_string raises nothing and returns the K complete frames
\* in order.  (Stated for frames whose numbers float() accepts.)
C6_TrailingPartial ==
    Finished =>
        LET lines == Lines(text)
            d     == Decompose(lines, 1)
        IN  PartialAt(lines, d.rest) =>
                /\ pc = "done"
                /\ err = NoError
                /\ FramesReturned(lines, d.frames, mols)

\* C10: for every span the frame pattern matched, the count in its header
\* line is the number of coord_lines repetitions the span consumed, and the
\* molecule read from the span has that many atoms.
C10_CountAgreement ==
    \A k \in 1..Len(xyz_texts) :
        LET n == IntVal(Lines(xyz_texts[k])[1])
            c == frame_pattern_at(xyz_texts[k], 1).count
        IN  /\ n = c
            /\ k <= Len(mols) => Len(mols[k]) = c

====
